---- MODULE Spec2Model ----
(***************************************************************************)
(* A model of autode.molecule.Molecule (src/autode/molecule.py) and of the *)
(* Reaction construction exercised by src/tests/test_reaction_class.py.    *)
(*                                                                         *)
(* A geometry (xyzs) is a function from atom index to a coordinate on a    *)
(* line; energies are integers in units of 0.5 kJ/mol.  Python's None is   *)
(* the sentinel None for numbers, NoXyzs / NoMatrix / NoGraph for the      *)
(* structured fields and the empty sequence for the conformer list.        *)
(***************************************************************************)
EXTENDS Integers, Sequences, FiniteSets, TLC

VARIABLES
    mol,           \* the Molecule object: a record of its fields
    status,        \* "new" | "ready" | "exited" (exit()) | "crashed" (uncaught exception)
    last,          \* the last call made on the molecule: [op, arg, repeat]
    engine_log,    \* the external-engine invocations of the last call, in order
    active_graph,  \* the value returned by the last get_active_mol_graph call
    rxn_args,      \* the molecules handed to Reaction(...): [reacs, prods]
    rxn,           \* the Reaction object: [status, reacs, prods]
    rxn_out        \* the value returned by the last accessor of the Reaction

vars == <<mol, status, last, engine_log, active_graph, rxn_args, rxn, rxn_out>>

---------------------------------------------------------------------------
(* Bounds of the model *)

NAtoms == 3          \* atoms of the molecule
MaxCoord == 4        \* coordinates range over 0..MaxCoord
MaxGen == 3          \* conformers returned by the conformer generator
MaxBonds == 2        \* length of the active_bonds argument
MaxConfs == 4        \* length of the conformer list handed to strip_non_unique_confs
MaxEnergy == 4       \* conformer energies handed to strip_non_unique_confs
MaxThreshold == 2    \* energy thresholds handed to strip_non_unique_confs
MaxSide == 2         \* molecules on one side of a Reaction

(* Program constants *)

None == -1                \* Python's None in a numeric field
BondCut == 1              \* largest distance at which two atoms are bonded
energy_threshold_kj == 1  \* the default of strip_non_unique_confs
UnitsPerKJ == 2           \* 1 / Constants.ha2kJmol: energies are in units of 0.5 kJ/mol

Atoms == 0 .. (NAtoms - 1)
Methods == {"ORCA", "XTB"}

Abs(n) == IF n < 0 THEN -n ELSE n
Min2(a, b) == IF a < b THEN a ELSE b
Max2(a, b) == IF a > b THEN a ELSE b

\* F applied to the value of v, with v evaluated once.
Once(v, F(_)) == CHOOSE y \in {F(x) : x \in {v}} : TRUE

RECURSIVE SumOver(_, _)
SumOver(S, f) ==
    IF S = {} THEN 0
    ELSE LET x == CHOOSE y \in S : TRUE IN f[x] + SumOver(S \ {x}, f)

---------------------------------------------------------------------------
(* Geometry helpers: autode.geom, autode.mol_graphs, autode.bond_lengths *)

NoXyzs == [a \in Atoms |-> None]
NoMatrix == [p \in Atoms \X Atoms |-> None]
NoGraph == [edges |-> {<<None, None>>}, active |-> {}]
NoMolObj == [n_bonds |-> None]

\* The geometries the model draws inputs from: atoms 0 .. NAtoms-2 on their
\* chain sites, the last atom anywhere in 0 .. MaxCoord.
Chain(q) == [a \in Atoms |-> IF a = NAtoms - 1 THEN q ELSE a]
Geoms == {Chain(q) : q \in 0 .. MaxCoord}

Pairs == {p \in Atoms \X Atoms : p[1] < p[2]}

calc_distance_matrix(x) == [p \in Atoms \X Atoms |-> Abs(x[p[1]] - x[p[2]])]

get_xyz_bond_list(x) == {p \in Pairs : Abs(x[p[1]] - x[p[2]]) <= BondCut}

\* A graph is its edge set (each edge reported once, lower index first) and
\* the set of edges that carry active=True.
make_graph(x) == [edges |-> get_xyz_bond_list(x), active |-> {}]

number_of_edges(g) == Cardinality(g.edges)

rdkit_conformer_geometries_are_resonable(x) ==
    \A p \in Pairs : x[p[1]] # x[p[2]]

---------------------------------------------------------------------------
(* The external engine behind autode.calculation.Calculation.  Both engines *)
(* are deterministic functions of the input geometry.  ORCA converges in    *)
(* one run (a geometry it returns is returned unchanged when handed back);  *)
(* XTB stops at its step limit, one step towards its optimum per run, so a  *)
(* geometry it returns need not be converged.                               *)

EngineGeom(x, method) ==
    IF method = "XTB"
    THEN [a \in Atoms |-> IF x[a] < a THEN x[a] + 1 ELSE x[a]]
    ELSE [a \in Atoms |-> Min2(x[a], a + 1)]

EnergyAt(x, method) ==
    IF method = "XTB"
    THEN SumOver(Pairs, [p \in Pairs |-> Abs(x[p[1]] - x[p[2]])])
    ELSE SumOver(Pairs, [p \in Pairs |->
             (Abs(x[p[1]] - x[p[2]]) - 2) * (Abs(x[p[1]] - x[p[2]]) - 2)])

\* Calculation(..., opt=True).run(); get_energy(); get_final_xyzs()
RunOpt(x, method, ok) ==
    IF ok
    THEN [energy |-> EnergyAt(EngineGeom(x, method), method),
          xyzs |-> EngineGeom(x, method)]
    ELSE [energy |-> None, xyzs |-> NoXyzs]

\* Calculation(...).run(); get_energy()
RunSp(x, method, ok) == IF ok THEN EnergyAt(x, method) ELSE None

---------------------------------------------------------------------------
(* Molecule *)

NewMol ==
    [xyzs |-> NoXyzs, mol_obj |-> NoMolObj, energy |-> None, n_bonds |-> None,
     conformers |-> <<>>, n_conformers |-> None,
     rdkit_conf_gen_is_fine |-> TRUE, graph |-> NoGraph,
     distance_matrix |-> NoMatrix]

Out(m, s) == [mol |-> m, status |-> s]

\* A faulty variant of set_xyzs: lines 148-149 left out, so the graph and
\* n_bonds stay those of the earlier geometry.
set_xyzs_stale_graph(m, x) ==
    IF x = NoXyzs
    THEN Out([m EXCEPT !.xyzs = x], "crashed")
    ELSE Out([m EXCEPT !.xyzs = x,
                       !.distance_matrix = calc_distance_matrix(x)], "ready")

\* set_xyzs: xyzs, distance matrix, graph and n_bonds from one geometry.
\* calc_distance_matrix(None) raises after self.xyzs has been assigned.
set_xyzs(m, x) ==
    IF x = NoXyzs
    THEN Out([m EXCEPT !.xyzs = x], "crashed")
    ELSE Out([m EXCEPT !.xyzs = x,
                       !.distance_matrix = calc_distance_matrix(x),
                       !.graph = make_graph(x),
                       !.n_bonds = number_of_edges(make_graph(x))], "ready")

\* A faulty variant of optimise: the calculation is run a second time from
\* the result of the first.
optimise_rerun(m, method, ok) ==
    Once(RunOpt(RunOpt(m.xyzs, method, TRUE).xyzs, method, ok),
         LAMBDA r : Once(set_xyzs([m EXCEPT !.energy = r.energy], r.xyzs),
             LAMBDA o : [mol |-> o.mol, status |-> o.status,
                         log |-> <<method, method>>]))

\* optimise: [mol, status, log]; log lists the engine runs of the call.
optimise(m, method, ok) ==
    Once(RunOpt(m.xyzs, method, ok),
         LAMBDA r : Once(set_xyzs([m EXCEPT !.energy = r.energy], r.xyzs),
             LAMBDA o : [mol |-> o.mol, status |-> o.status,
                         log |-> <<method>>]))

single_point(m, method, ok) ==
    Out([m EXCEPT !.energy = RunSp(m.xyzs, method, ok)], "ready")

_check_rdkit_graph_agreement(m) ==
    IF m.n_bonds = number_of_edges(m.graph) THEN "ready" ELSE "exited"

_init_smiles(m, rdkit_bonds, embed, simanl) ==
    LET m1 == [m EXCEPT !.mol_obj = [n_bonds |-> rdkit_bonds],
                        !.n_bonds = rdkit_bonds,
                        !.xyzs = embed]
    IN IF ~ rdkit_conformer_geometries_are_resonable(embed)
       THEN Out([m1 EXCEPT !.rdkit_conf_gen_is_fine = FALSE,
                           !.xyzs = simanl,
                           !.graph = make_graph(simanl),
                           !.n_bonds = number_of_edges(make_graph(simanl)),
                           !.distance_matrix = calc_distance_matrix(simanl)],
                "ready")
       ELSE LET m2 == [m1 EXCEPT !.graph = make_graph(embed)]
            IN IF _check_rdkit_graph_agreement(m2) = "exited"
               THEN Out(m2, "exited")
               ELSE Out([m2 EXCEPT !.distance_matrix =
                                       calc_distance_matrix(embed)], "ready")

\* The graph is built from self.xyzs, the bond count and the distance
\* matrix from the xyzs argument.
_init_xyzs(m, x) ==
    Out([m EXCEPT !.n_bonds = Cardinality(get_xyz_bond_list(x)),
                  !.graph = make_graph(m.xyzs),
                  !.distance_matrix = calc_distance_matrix(x)], "ready")

\* __init__: smiles is TRUE when a SMILES string is given, x is NoXyzs when
\* no xyzs are given.
MoleculeInit(smiles, x, rdkit_bonds, embed, simanl) ==
    LET m0 == [NewMol EXCEPT !.xyzs = x]
        a == IF smiles THEN _init_smiles(m0, rdkit_bonds, embed, simanl)
             ELSE Out(m0, "ready")
    IN IF a.status # "ready" \/ x = NoXyzs THEN a ELSE _init_xyzs(a.mol, x)

---------------------------------------------------------------------------
(* get_active_mol_graph *)

Reversed(bond) == <<bond[2], bond[1]>>

\* networkx add_edge on an undirected graph: the edge is reported once,
\* lower index first.
add_edge(g, bond, active) ==
    LET e == <<Min2(bond[1], bond[2]), Max2(bond[1], bond[2])>>
    IN [edges |-> g.edges \cup {e},
        active |-> IF active THEN g.active \cup {e} ELSE g.active]

\* A faulty variant of the loop body: line 80 left out, so an edge that
\* exists is found but not flagged.
MarkBond_unflagged(g, bond) ==
    LET found == {e \in g.edges : e = bond \/ e = Reversed(bond)}
    IN IF found # {} THEN g ELSE add_edge(g, bond, TRUE)

\* One pass of the loop over active_bonds.
MarkBond(g, bond) ==
    LET found == {e \in g.edges : e = bond \/ e = Reversed(bond)}
    IN IF found # {}
       THEN [g EXCEPT !.active = @ \cup found]
       ELSE add_edge(g, bond, TRUE)

RECURSIVE MarkBonds(_, _)
MarkBonds(g, bonds) ==
    IF bonds = <<>> THEN g
    ELSE MarkBonds(MarkBond(g, Head(bonds)), Tail(bonds))

\* The returned graph; self.graph.copy() leaves the molecule's graph alone.
get_active_mol_graph(m, active_bonds) == MarkBonds(m.graph, active_bonds)

---------------------------------------------------------------------------
(* Conformers: autode.conformers.conformers.Conformer *)

\* Conformer(name=self.name + '_conf' + str(i), xyzs=conf_xyzs[i], ...)
Conformer(i, x) == [name |-> i, xyzs |-> x, energy |-> None]

\* Conformer.optimise: a failed calculation leaves the energy unset.
ConformerOptimise(c, method, ok) ==
    IF ok
    THEN Once(RunOpt(c.xyzs, method, TRUE),
              LAMBDA r : [c EXCEPT !.energy = r.energy, !.xyzs = r.xyzs])
    ELSE [c EXCEPT !.energy = None]

\* [self.conformers[i].optimise(method=...) for i in range(len(self.conformers))]
\* The k-th engine call of the pipeline fails when k is in failing.
OptimiseAll(confs, method, failing, offset) ==
    [i \in 1 .. Len(confs) |->
        ConformerOptimise(confs[i], method, (offset + i) \notin failing)]

EngineCalls(confs, method) == [i \in 1 .. Len(confs) |-> <<method, confs[i].name>>]

generate_conformers(m, conf_xyzs) ==
    [m EXCEPT !.conformers =
                  [i \in 1 .. Len(conf_xyzs) |-> Conformer(i - 1, conf_xyzs[i])],
              !.n_conformers = Len(conf_xyzs)]

---------------------------------------------------------------------------
(* strip_non_unique_confs *)

\* Lines 114-117: conformer i (1-based) against self.conformers[j] for the
\* first len(unique_conformers) indices j.  Arithmetic or comparison on an
\* unset energy raises TypeError.
RECURSIVE InnerLoop(_, _, _, _, _)
InnerLoop(confs, i, j, n_unique, d_e) ==
    IF j > n_unique THEN "unique"
    ELSE IF confs[i].energy = None \/ confs[j].energy = None THEN "TypeError"
    ELSE IF /\ confs[i].energy - d_e < confs[j].energy
            /\ confs[j].energy < confs[i].energy + d_e
         THEN "dup"
         ELSE InnerLoop(confs, i, j + 1, n_unique, d_e)

\* A faulty variant of lines 112-119: a duplicate of lower energy replaces
\* the conformer retained last.
RECURSIVE OuterLoop_bumping(_, _, _, _, _)
OuterLoop_bumping(confs, n, i, unique, d_e) ==
    IF i > n THEN [err |-> FALSE, unique |-> unique]
    ELSE Once(InnerLoop(confs, i, 1, Len(unique), d_e), LAMBDA r :
            IF r = "TypeError" THEN [err |-> TRUE, unique |-> unique]
            ELSE IF r = "unique"
            THEN OuterLoop_bumping(confs, n, i + 1, Append(unique, confs[i]), d_e)
            ELSE IF confs[i].energy < unique[Len(unique)].energy
            THEN OuterLoop_bumping(confs, n, i + 1,
                     [unique EXCEPT ![Len(unique)] = confs[i]], d_e)
            ELSE OuterLoop_bumping(confs, n, i + 1, unique, d_e))

\* Lines 112-119, for conformers i .. n with unique_conformers as given.
RECURSIVE OuterLoop(_, _, _, _, _)
OuterLoop(confs, n, i, unique, d_e) ==
    IF i > n THEN [err |-> FALSE, unique |-> unique]
    ELSE Once(InnerLoop(confs, i, 1, Len(unique), d_e), LAMBDA r :
            IF r = "TypeError" THEN [err |-> TRUE, unique |-> unique]
            ELSE OuterLoop(confs, n, i + 1,
                     IF r = "unique" THEN Append(unique, confs[i]) ELSE unique,
                     d_e))

\* The scan after conformers 1 .. k of the list have been looked at.
Scan(confs, k, d_e) == OuterLoop(confs, k, 2, <<confs[1]>>, d_e)

strip_non_unique_confs(m, threshold_kj) ==
    IF m.conformers = <<>> THEN Out(m, "crashed")
    ELSE Once(Scan(m.conformers, m.n_conformers, threshold_kj * UnitsPerKJ),
              LAMBDA r :
            IF r.err THEN Out(m, "crashed")
            ELSE Out([m EXCEPT !.conformers = r.unique,
                               !.n_conformers = Len(r.unique)], "ready"))

---------------------------------------------------------------------------
(* find_lowest_energy_conformer *)

Energies(confs) == {confs[i].energy : i \in 1 .. Len(confs)}

\* min([conf.energy for conf in self.conformers]): TypeError when an unset
\* energy is compared with another element.
MinRaises(confs) == Len(confs) >= 2 /\ None \in Energies(confs)

MinEnergy(confs) ==
    CHOOSE e \in Energies(confs) : \A f \in Energies(confs) : e <= f

\* A faulty variant of lines 137-141: the break left out, so the last
\* conformer of lowest energy wins.
LastLowest(confs, lowest) ==
    CHOOSE i \in 1 .. Len(confs) :
        /\ confs[i].energy = lowest
        /\ \A j \in (i + 1) .. Len(confs) : confs[j].energy # lowest

\* Lines 137-141: the index of the conformer the loop stops at.
FirstLowest(confs, lowest) ==
    CHOOSE i \in 1 .. Len(confs) :
        /\ confs[i].energy = lowest
        /\ \A j \in 1 .. (i - 1) : confs[j].energy # lowest

\* Lines 136-141 on the conformers as optimised with ORCA.
SelectLowest(m4, log4) ==
    IF MinRaises(m4.conformers)
    THEN [mol |-> m4, status |-> "crashed", log |-> log4]
    ELSE Once(m4.conformers[FirstLowest(m4.conformers,
                                        MinEnergy(m4.conformers))],
              LAMBDA c : Once(set_xyzs([m4 EXCEPT !.energy = c.energy], c.xyzs),
                  LAMBDA r : [mol |-> r.mol, status |-> r.status, log |-> log4]))

\* The whole call: [mol, status, log].  m2 is the molecule after line 132,
\* s the outcome of line 133, m4 the molecule after line 134.
find_lowest_energy_conformer(m, conf_xyzs, failing) ==
    LET n == Len(conf_xyzs)
        m1 == generate_conformers(m, conf_xyzs)
        log2 == EngineCalls(m1.conformers, "XTB")
        AfterStrip(m2, s) ==
            IF s.status = "crashed"
            THEN [mol |-> m2, status |-> "crashed", log |-> log2]
            ELSE Once([s.mol EXCEPT !.conformers =
                                       OptimiseAll(@, "ORCA", failing, n)],
                      LAMBDA m4 : SelectLowest(m4,
                          log2 \o EngineCalls(m4.conformers, "ORCA")))
        AfterXtb(m2) ==
            Once(strip_non_unique_confs(m2, energy_threshold_kj),
                 LAMBDA s : AfterStrip(m2, s))
    IN Once([m1 EXCEPT !.conformers = OptimiseAll(@, "XTB", failing, 0)],
            AfterXtb)

---------------------------------------------------------------------------
(* Reaction: autode.reaction.Reaction, as used by the tests *)

KcalMolConversion == 6275      \* Hartree to 0.1 kcal/mol
Elements == {"H", "O"}

Species(name, atoms, charge, n_bonds, energy, solvent) ==
    [name |-> name, atoms |-> atoms, charge |-> charge, n_bonds |-> n_bonds,
     energy |-> energy, solvent |-> solvent]

Library ==
    {Species("h1", <<"H">>, 0, 0, 2, "none"),
     Species("h1_minus", <<"H">>, -1, 0, 3, "none"),
     Species("hh", <<"H", "H">>, 0, 1, 1, "none"),
     Species("hh_thf", <<"H", "H">>, 0, 1, 1, "thf"),
     Species("oh", <<"O", "H">>, 0, 1, 4, "none"),
     Species("h3_linear", <<"H", "H", "H">>, 0, 2, 6, "none"),
     Species("h3_trigonal", <<"H", "H", "H">>, 0, 3, 5, "none")}

Sides == UNION {[1 .. n -> Library] : n \in 1 .. MaxSide}

RECURSIVE SumSeq(_)
SumSeq(seq) == IF seq = <<>> THEN 0 ELSE Head(seq) + SumSeq(Tail(seq))

Count(atoms, el) == Cardinality({i \in 1 .. Len(atoms) : atoms[i] = el})

TotalCharge(side) == SumSeq([i \in 1 .. Len(side) |-> side[i].charge])
TotalBonds(side) == SumSeq([i \in 1 .. Len(side) |-> side[i].n_bonds])
TotalEnergy(side) == SumSeq([i \in 1 .. Len(side) |-> side[i].energy])
TotalAtoms(side, el) == SumSeq([i \in 1 .. Len(side) |-> Count(side[i].atoms, el)])

Balanced(reacs, prods) ==
    /\ TotalCharge(reacs) = TotalCharge(prods)
    /\ \A el \in Elements : TotalAtoms(reacs, el) = TotalAtoms(prods, el)

SolventsMatch(reacs, prods) ==
    \A i, j \in 1 .. Len(reacs \o prods) :
        (reacs \o prods)[i].solvent = (reacs \o prods)[j].solvent

NoReaction == [status |-> "new", reacs |-> <<>>, prods |-> <<>>]

\* A faulty variant of Reaction.__init__: no switch of the roles.
ReactionInit_unswitched(reacs, prods) ==
    IF ~ Balanced(reacs, prods)
    THEN [NoReaction EXCEPT !.status = "UnbalancedReaction"]
    ELSE IF ~ SolventsMatch(reacs, prods)
    THEN [NoReaction EXCEPT !.status = "SolventsDontMatch"]
    ELSE [status |-> "built", reacs |-> reacs, prods |-> prods]

\* A faulty variant of Reaction.__init__: no balance check.
ReactionInit_unchecked(reacs, prods) ==
    IF ~ SolventsMatch(reacs, prods)
    THEN [NoReaction EXCEPT !.status = "SolventsDontMatch"]
    ELSE IF TotalBonds(prods) > TotalBonds(reacs)
    THEN [status |-> "built", reacs |-> prods, prods |-> reacs]
    ELSE [status |-> "built", reacs |-> reacs, prods |-> prods]

\* Reaction.__init__: balance, solvents, then the switch of reactants and
\* products when the products have more bonds.
ReactionInit(reacs, prods) ==
    IF ~ Balanced(reacs, prods)
    THEN [NoReaction EXCEPT !.status = "UnbalancedReaction"]
    ELSE IF ~ SolventsMatch(reacs, prods)
    THEN [NoReaction EXCEPT !.status = "SolventsDontMatch"]
    ELSE IF TotalBonds(prods) > TotalBonds(reacs)
    THEN [status |-> "built", reacs |-> prods, prods |-> reacs]
    ELSE [status |-> "built", reacs |-> reacs, prods |-> prods]

ReactionType(r) ==
    IF Len(r.reacs) = 1 /\ Len(r.prods) = 1 THEN "Rearrangement"
    ELSE IF Len(r.reacs) = 1 /\ Len(r.prods) = 2 THEN "Dissociation"
    ELSE IF Len(r.reacs) = 2 /\ Len(r.prods) = 2 THEN "Substitution"
    ELSE IF Len(r.reacs) = 2 /\ Len(r.prods) = 1 THEN "Addition"
    ELSE "unclassified"

calc_delta_e(r) ==
    KcalMolConversion * (TotalEnergy(r.prods) - TotalEnergy(r.reacs))

---------------------------------------------------------------------------
(* Actions on the molecule *)

NoCall == [op |-> "none", arg |-> "none", repeat |-> FALSE]
NoActive == [bonds |-> <<>>, graph |-> NoGraph]
NoOut == [op |-> "none", value |-> None]

Call(op, arg) ==
    [op |-> op, arg |-> arg, repeat |-> last.op = op /\ last.arg = arg]

RxnIdle == UNCHANGED <<rxn_args, rxn, rxn_out>>
MolIdle == UNCHANGED <<mol, status, last, engine_log, active_graph>>

\* Molecule(name, smiles=..., xyzs=...)
Construct ==
    /\ status = "new"
    /\ \E smiles \in BOOLEAN, x \in Geoms \cup {NoXyzs},
          rdkit_bonds \in 0 .. Cardinality(Pairs), embed \in Geoms,
          simanl \in Geoms :
        /\ smiles \/ x # NoXyzs
        /\ \E r \in {MoleculeInit(smiles, x, rdkit_bonds, embed, simanl)} :
              /\ mol' = r.mol
              /\ status' = r.status
    /\ last' = Call("init", "none")
    /\ engine_log' = <<>>
    /\ active_graph' = NoActive
    /\ RxnIdle

SetXyzs ==
    /\ status = "ready"
    /\ \E x \in Geoms :
        \E r \in {set_xyzs(mol, x)} :
           /\ mol' = r.mol
           /\ status' = r.status
    /\ last' = Call("set_xyzs", "none")
    /\ engine_log' = <<>>
    /\ active_graph' = NoActive
    /\ RxnIdle

Optimise ==
    /\ status = "ready"
    /\ \E method \in Methods, ok \in BOOLEAN :
        \E r \in {optimise(mol, method, ok)} :
           /\ mol' = r.mol
           /\ status' = r.status
           /\ last' = Call("optimise", method)
           /\ engine_log' = r.log
    /\ active_graph' = NoActive
    /\ RxnIdle

SinglePoint ==
    /\ status = "ready"
    /\ \E method \in Methods, ok \in BOOLEAN :
        \E r \in {single_point(mol, method, ok)} :
           /\ mol' = r.mol
           /\ status' = r.status
           /\ last' = Call("single_point", method)
           /\ engine_log' = <<method>>
    /\ active_graph' = NoActive
    /\ RxnIdle

\* active_bonds: a list of pairs of different atoms, in either order.
BondArgs ==
    UNION {[1 .. n -> {b \in Atoms \X Atoms : b[1] # b[2]}] : n \in 0 .. MaxBonds}

GetActiveMolGraph ==
    /\ status = "ready"
    /\ \E bonds \in BondArgs :
        active_graph' = [bonds |-> bonds, graph |-> get_active_mol_graph(mol, bonds)]
    /\ last' = Call("get_active_mol_graph", "none")
    /\ engine_log' = <<>>
    /\ UNCHANGED <<mol, status>>
    /\ RxnIdle

\* What the conformer generator returns: up to n geometries.
ConfXyzs(n) == UNION {[1 .. k -> Geoms] : k \in 1 .. n}

\* The engine calls of one search that fail: none, or one of them.
Failing(n) == {{}} \cup {{k} : k \in 1 .. 2 * n}

FindLowestEnergyConformer(n) ==
    /\ status = "ready"
    /\ \E conf_xyzs \in ConfXyzs(n), failing \in Failing(n) :
        \E r \in {find_lowest_energy_conformer(mol, conf_xyzs, failing)} :
           /\ mol' = r.mol
           /\ status' = r.status
           /\ engine_log' = r.log
           /\ last' = Call("find_lowest_energy_conformer", Len(conf_xyzs))
    /\ active_graph' = NoActive
    /\ RxnIdle

MolInit ==
    /\ mol = NewMol
    /\ status = "new"
    /\ last = NoCall
    /\ engine_log = <<>>
    /\ active_graph = NoActive

RxnNone ==
    /\ rxn_args = [reacs |-> <<>>, prods |-> <<>>]
    /\ rxn = NoReaction
    /\ rxn_out = NoOut

StripNonUniqueConfs ==
    /\ status = "ready"
    /\ \E threshold_kj \in 1 .. MaxThreshold :
        \E r \in {strip_non_unique_confs(mol, threshold_kj)} :
           /\ mol' = r.mol
           /\ status' = r.status
           /\ last' = Call("strip_non_unique_confs", threshold_kj)
    /\ engine_log' = <<>>
    /\ active_graph' = NoActive
    /\ RxnIdle

---------------------------------------------------------------------------
(* Actions on the reaction *)

\* Reaction(mol1, mol2, ...)
BuildReaction ==
    /\ rxn.status = "new"
    /\ rxn' = ReactionInit(rxn_args.reacs, rxn_args.prods)
    /\ rxn_out' = [op |-> "init", value |-> None]
    /\ UNCHANGED rxn_args
    /\ MolIdle

\* reaction.type
GetType ==
    /\ rxn.status = "built"
    /\ rxn_out' = [op |-> "type", value |-> ReactionType(rxn)]
    /\ UNCHANGED <<rxn_args, rxn>>
    /\ MolIdle

\* reaction.calc_delta_e()
CalcDeltaE ==
    /\ rxn.status = "built"
    /\ rxn_out' = [op |-> "calc_delta_e", value |-> calc_delta_e(rxn)]
    /\ UNCHANGED <<rxn_args, rxn>>
    /\ MolIdle

---------------------------------------------------------------------------
(* Specifications *)

Init == MolInit /\ RxnNone

\* Construction, geometry updates and energy evaluations of one molecule.
Next ==
    \/ Construct
    \/ SetXyzs
    \/ Optimise
    \/ SinglePoint

Spec == Init /\ [][Next]_vars

\* The graph queries of a molecule built from xyzs.
InitXyzs ==
    /\ \E x \in Geoms : mol = MoleculeInit(FALSE, x, None, x, x).mol
    /\ status = "ready"
    /\ last = [NoCall EXCEPT !.op = "init"]
    /\ engine_log = <<>>
    /\ active_graph = NoActive
    /\ RxnNone

NextGraph ==
    \/ SetXyzs
    \/ GetActiveMolGraph

SpecGraph == InitXyzs /\ [][NextGraph]_vars

\* A molecule built from SMILES: the rdkit bond list agrees with the embedded
\* geometry, and the annealed geometry of the fallback has the last atom on
\* its chain site.
SmilesMols ==
    {MoleculeInit(TRUE, NoXyzs, number_of_edges(make_graph(embed)), embed,
                  Chain(NAtoms - 1)) : embed \in Geoms}

\* The conformer search and the geometry updates of such a molecule.
InitSmiles ==
    /\ \E r \in SmilesMols :
        /\ r.status = "ready"
        /\ mol = r.mol
    /\ status = "ready"
    /\ last = [NoCall EXCEPT !.op = "init"]
    /\ engine_log = <<>>
    /\ active_graph = NoActive
    /\ RxnNone

NextConformers ==
    \/ FindLowestEnergyConformer(MaxGen - 1)
    \/ SetXyzs
    \/ Optimise

SpecConformers == InitSmiles /\ [][NextConformers]_vars

\* The conformer search alone.
NextSearch == FindLowestEnergyConformer(MaxGen)

SpecSearch == InitSmiles /\ [][NextSearch]_vars

\* strip_non_unique_confs on conformer lists with assigned energies.
EnergyLists == UNION {[1 .. n -> 0 .. MaxEnergy] : n \in 1 .. MaxConfs}

WithEnergies(m, energies) ==
    [m EXCEPT !.conformers =
                  [i \in 1 .. Len(energies) |->
                      [Conformer(i - 1, m.xyzs) EXCEPT !.energy = energies[i]]],
              !.n_conformers = Len(energies)]

InitStrip ==
    /\ \E energies \in EnergyLists :
        mol = WithEnergies(MoleculeInit(TRUE, NoXyzs, NAtoms - 1,
                                        Chain(NAtoms - 1), Chain(NAtoms - 1)).mol,
                           energies)
    /\ status = "ready"
    /\ last = [NoCall EXCEPT !.op = "init"]
    /\ engine_log = <<>>
    /\ active_graph = NoActive
    /\ RxnNone

SpecStrip == InitStrip /\ [][StripNonUniqueConfs]_vars

\* Reactions built from the molecules of the library.
InitReaction ==
    /\ MolInit
    /\ rxn_args \in [reacs : Sides, prods : Sides]
    /\ rxn = NoReaction
    /\ rxn_out = NoOut

NextReaction ==
    \/ BuildReaction
    \/ GetType
    \/ CalcDeltaE

SpecReaction == InitReaction /\ [][NextReaction]_vars

---------------------------------------------------------------------------
(* Claims *)

StripStep ==
    /\ status = "ready"
    /\ status' = "ready"
    /\ last'.op = "strip_non_unique_confs"

\* The list the claimed deduplication retains: conformer i is kept iff its
\* energy differs by at least d_e from every conformer already kept.
RECURSIVE GreedyRetained(_, _, _, _)
GreedyRetained(confs, i, kept, d_e) ==
    IF i > Len(confs) THEN kept
    ELSE GreedyRetained(confs, i + 1,
             IF \A k \in 1 .. Len(kept) :
                    Abs(confs[i].energy - kept[k].energy) >= d_e
             THEN Append(kept, confs[i]) ELSE kept,
             d_e)

\* C1: strip_non_unique_confs keeps the first conformer and then conformer i
\* iff its energy differs by at least d_e from every conformer already
\* retained; no two retained conformers are closer than d_e.
C1_GreedyAgainstRetained ==
    [][StripStep =>
          /\ mol'.conformers =
                 GreedyRetained(mol.conformers, 2, <<mol.conformers[1]>>,
                                last'.arg * UnitsPerKJ)
          /\ \A i, j \in 1 .. Len(mol'.conformers) :
                 i # j => Abs(mol'.conformers[i].energy
                              - mol'.conformers[j].energy)
                          >= last'.arg * UnitsPerKJ]_vars

RECURSIVE IsSubseq(_, _)
IsSubseq(a, b) ==
    \/ a = <<>>
    \/ /\ b # <<>>
       /\ IF Head(a) = Head(b) THEN IsSubseq(Tail(a), Tail(b))
          ELSE IsSubseq(a, Tail(b))

IsPrefix(a, b) == Len(a) <= Len(b) /\ SubSeq(b, 1, Len(a)) = a

\* C2: the list left by strip_non_unique_confs is a subsequence of the input
\* in input order that starts with the input's first conformer, and whatever
\* the scan has retained after any number of conformers is still there, in
\* place, at the end.
C2_RetainedSubsequence ==
    [][StripStep =>
          /\ IsSubseq(mol'.conformers, mol.conformers)
          /\ mol'.conformers[1] = mol.conformers[1]
          /\ mol'.n_conformers = Len(mol'.conformers)
          /\ \A k \in 1 .. Len(mol.conformers) :
                 IsPrefix(Scan(mol.conformers, k, last'.arg * UnitsPerKJ).unique,
                          mol'.conformers)]_vars

\* A conformer was dropped, and a later conformer of lower energy than the
\* first was retained behind it.
C2_Witness ==
    /\ last.op = "strip_non_unique_confs"
    /\ status = "ready"
    /\ Len(mol.conformers) >= 2
    /\ mol.conformers[2].name >= 2
    /\ mol.conformers[2].energy < mol.conformers[1].energy

GeometryOps == {"set_xyzs", "optimise", "find_lowest_energy_conformer"}

\* C3: after set_xyzs, optimise or find_lowest_energy_conformer the distance
\* matrix, the graph and n_bonds are those of the current xyzs, and n_bonds
\* is the number of edges of the graph.
C3_GeometryConsistent ==
    (status = "ready" /\ last.op \in GeometryOps) =>
        /\ mol.distance_matrix = calc_distance_matrix(mol.xyzs)
        /\ mol.graph.edges = get_xyz_bond_list(mol.xyzs)
        /\ mol.n_bonds = Cardinality(mol.graph.edges)
        /\ mol.n_bonds = Cardinality(get_xyz_bond_list(mol.xyzs))

\* An optimise that moved the molecule after a conformer search.
C3_Witness ==
    /\ status = "ready"
    /\ last.op = "optimise"
    /\ mol.conformers # <<>>
    /\ \A i \in 1 .. Len(mol.conformers) : mol.conformers[i].xyzs # mol.xyzs

\* C4: a construction that completes has a declared bond count (the rdkit
\* bond list, or the bond list of the xyzs) equal to the edge count of the
\* graph: a mismatch aborts on every path.
C4_MismatchAborts ==
    (last.op = "init" /\ status = "ready") =>
        /\ mol.mol_obj # NoMolObj =>
               mol.mol_obj.n_bonds = number_of_edges(mol.graph)
        /\ mol.n_bonds = number_of_edges(mol.graph)

SomeFailed(confs) ==
    /\ \E i \in 1 .. Len(confs) : confs[i].energy = None
    /\ \E i \in 1 .. Len(confs) : confs[i].energy # None

Succeeded(confs) == Energies(confs) \ {None}

\* C5: when some but not all conformer calculations fail, the search
\* completes with the energy of the lowest conformer that succeeded.
C5_PartialFailureCompletes ==
    (last.op = "find_lowest_energy_conformer" /\ SomeFailed(mol.conformers)) =>
        /\ status = "ready"
        /\ mol.energy \in Succeeded(mol.conformers)
        /\ \A e \in Succeeded(mol.conformers) : mol.energy <= e

Undirected(bond) == <<Min2(bond[1], bond[2]), Max2(bond[1], bond[2])>>

Supplied(bonds) == {Undirected(bonds[i]) : i \in 1 .. Len(bonds)}

\* C6: the graph returned by get_active_mol_graph has the molecule's edges
\* and every supplied pair, every supplied pair is active, flags already
\* there are kept, and the molecule's own graph is unchanged.
C6_ActiveGraph ==
    [][last'.op = "get_active_mol_graph" =>
          /\ active_graph'.graph.edges =
                 mol.graph.edges \cup Supplied(active_graph'.bonds)
          /\ Supplied(active_graph'.bonds) \subseteq active_graph'.graph.active
          /\ mol.graph.active \subseteq active_graph'.graph.active
          /\ active_graph'.graph.active \subseteq active_graph'.graph.edges
          /\ mol'.graph = mol.graph]_vars

\* One supplied pair is an existing edge given in reverse, another is not
\* an edge of the molecule.
C6_Witness ==
    /\ last.op = "get_active_mol_graph"
    /\ \E i \in 1 .. Len(active_graph.bonds) :
           /\ active_graph.bonds[i] \notin mol.graph.edges
           /\ Reversed(active_graph.bonds[i]) \in mol.graph.edges
    /\ \E i \in 1 .. Len(active_graph.bonds) :
           Undirected(active_graph.bonds[i]) \notin mol.graph.edges

SecondOptimise ==
    /\ status = "ready"
    /\ last.op = "optimise"
    /\ last'.op = "optimise"
    /\ last'.arg = last.arg
    /\ status' = "ready"

Swapped == TotalBonds(rxn_args.prods) > TotalBonds(rxn_args.reacs)

\* C8: a built Reaction holds the supplied products as reacs and the
\* supplied reactants as prods iff the products have strictly more bonds,
\* and the type and calc_delta_e read those roles.
C8_RoleSwap ==
    rxn.status = "built" =>
        /\ rxn.reacs = (IF Swapped THEN rxn_args.prods ELSE rxn_args.reacs)
        /\ rxn.prods = (IF Swapped THEN rxn_args.reacs ELSE rxn_args.prods)
        /\ rxn_out.op = "calc_delta_e" =>
               rxn_out.value =
                   KcalMolConversion
                   * (IF Swapped
                      THEN TotalEnergy(rxn_args.reacs) - TotalEnergy(rxn_args.prods)
                      ELSE TotalEnergy(rxn_args.prods) - TotalEnergy(rxn_args.reacs))
        /\ rxn_out.op = "type" =>
               (rxn_out.value = "Dissociation"
                    <=> (IF Swapped
                         THEN Len(rxn_args.prods) = 1 /\ Len(rxn_args.reacs) = 2
                         ELSE Len(rxn_args.reacs) = 1 /\ Len(rxn_args.prods) = 2))

\* h + h -> hh, as in test_reaction_class: switched, and read after that.
C8_Witness ==
    /\ rxn.status = "built"
    /\ Swapped
    /\ Len(rxn.reacs) = 1
    /\ Len(rxn.prods) = 2
    /\ rxn_out.op = "calc_delta_e"

\* C9: a Reaction whose sides differ in total charge or in atoms raises
\* UnbalancedReaction, a balanced one does not, and a built Reaction is
\* balanced.
C9_Balance ==
    rxn.status # "new" =>
        /\ (rxn.status = "UnbalancedReaction") <=>
               (\/ TotalCharge(rxn_args.reacs) # TotalCharge(rxn_args.prods)
                \/ \E el \in Elements :
                       TotalAtoms(rxn_args.reacs, el) # TotalAtoms(rxn_args.prods, el))
        /\ rxn.status = "built" =>
               /\ TotalCharge(rxn.reacs) = TotalCharge(rxn.prods)
               /\ \A el \in Elements :
                      TotalAtoms(rxn.reacs, el) = TotalAtoms(rxn.prods, el)

\* Equal atoms, unequal charge: h1 + h1_minus against hh.
C9_Witness ==
    /\ rxn.status = "UnbalancedReaction"
    /\ \A el \in Elements :
           TotalAtoms(rxn_args.reacs, el) = TotalAtoms(rxn_args.prods, el)

SearchDone ==
    /\ status = "ready"
    /\ last.op = "find_lowest_energy_conformer"
    /\ None \notin Energies(mol.conformers)

Names(confs) == [i \in 1 .. Len(confs) |-> confs[i].name]

\* C10: the search runs XTB on every generated conformer, then ORCA on the
\* retained ones only; the molecule ends with the lowest energy of the
\* retained conformers and with the geometry, graph and distance matrix of
\* the first retained conformer that has it.
C10_SearchOrderAndResult ==
    SearchDone =>
        /\ engine_log =
               [i \in 1 .. last.arg |-> <<"XTB", i - 1>>]
               \o [i \in 1 .. Len(mol.conformers) |->
                      <<"ORCA", mol.conformers[i].name>>]
        /\ \A i \in 1 .. Len(mol.conformers) :
               mol.energy <= mol.conformers[i].energy
        /\ \E k \in 1 .. Len(mol.conformers) :
               /\ mol.conformers[k].energy = mol.energy
               /\ \A j \in 1 .. (k - 1) : mol.conformers[j].energy # mol.energy
               /\ mol.xyzs = mol.conformers[k].xyzs
               /\ mol.graph = make_graph(mol.conformers[k].xyzs)
               /\ mol.distance_matrix =
                      calc_distance_matrix(mol.conformers[k].xyzs)

\* A conformer was dropped, and two of the retained ones share the lowest
\* energy with different geometries.
C10_Witness ==
    /\ SearchDone
    /\ last.arg > Len(mol.conformers)
    /\ \E i, j \in 1 .. Len(mol.conformers) :
           /\ i < j
           /\ mol.conformers[i].energy = mol.energy
           /\ mol.conformers[j].energy = mol.energy
           /\ mol.conformers[i].xyzs # mol.conformers[j].xyzs

====
